---- MODULE Spec2Model ----
(***************************************************************************)
(* Model of the analyzer signal protocol (rome_analyze/src/signals.rs) and *)
(* of the comment / skipped-trivia formatting builders                     *)
(* (rome_formatter/src/token.rs).                                          *)
(*                                                                         *)
(* Each component has its own specification over the shared variables:     *)
(*   SpecSignal    RuleSignal::diagnostic / RuleSignal::action             *)
(*   SpecIter      AnalyzerActionIter and its two adapters                 *)
(*   SpecLeading   FormatLeadingComments::fmt                              *)
(*   SpecTrailing  FormatTrailingComments::fmt                             *)
(*   SpecDangling  FormatDanglingComments::fmt                             *)
(*   SpecSkipped   FormatSkippedTokenTrivia::fmt                           *)
(* The variables of the components a specification does not exercise stay  *)
(* at their idle values.                                                   *)
(***************************************************************************)
EXTENDS Integers, Sequences, FiniteSets, TLC

VARIABLES
    \* ---- RuleSignal (signals.rs:192-199) and what it observes ----
    signal,        \* the RuleSignal: file_id, services, rule, query result, tree
    diagResult,    \* what diagnostic() returned, or NotCalled
    actionResult,  \* what action() returned, or NotCalled
    actionLocals,  \* the locals action() computed: node_to_suppress, suppression_node
    ruleCalls,     \* the Rule methods invoked so far (R::diagnostic, R::action, R::can_suppress)
    \* ---- AnalyzerActionIter / CodeSuggestionAdviceIter / CodeSuggestionIter ----
    actionsList,   \* the Vec<AnalyzerAction> the iterator was built from
    iterState,     \* the iterator: its type, file_id and IntoIter
    yielded,       \* the results of the next() calls, in call order
    \* ---- formatter builders (token.rs) ----
    fmtInput,      \* the comments / token the builder formats
    fmtLocals,     \* the locals of the running fmt()
    fmtOut         \* the elements written to the formatter so far

sigVars  == <<signal, diagResult, actionResult, actionLocals, ruleCalls>>
iterVars == <<actionsList, iterState, yielded>>
fmtVars  == <<fmtInput, fmtLocals, fmtOut>>
vars     == <<signal, diagResult, actionResult, actionLocals, ruleCalls,
              actionsList, iterState, yielded, fmtInput, fmtLocals, fmtOut>>

\* ------------------------------------------------------------------------
\* Bounds of the model
\* ------------------------------------------------------------------------
\* Number of nodes on the ancestor chain of the tree (root = node 1).
MaxDepth == 3
\* Longest action list handed to AnalyzerActionIter::new.
MaxActions == 3
\* next() calls allowed after the iterator is exhausted.
MaxExtraCalls == 2
\* Longest comment list handed to the leading / trailing comment builders.
MaxComments == 2
\* Largest lines_before / lines_after of a comment ("many" lines).
MaxLines == 2
\* Longest leading trivia of the token given to the skipped-trivia builder.
MaxPieces == 4

\* Option<T>
None == [none |-> TRUE]
Some(x) == [some |-> x]
NotCalled == [not_called |-> TRUE]
Idle == [idle |-> TRUE]

\* ------------------------------------------------------------------------
\* Syntax tree, tokens and trivia (rome_rowan, as observed by signals.rs)
\* ------------------------------------------------------------------------
\* (TriviaPieceKind, text) pairs, signals.rs:284-288 notation.
Piece(kind, text) == [kind |-> kind, text |-> text]

\* TriviaPiece::is_newline, used at signals.rs:259.
is_newline(piece) == piece.kind = "Newline"

\* The leading trivia a token of the analysed tree may carry.
LeadingTriviaChoices ==
    { << >>,
      << Piece("Whitespace", " ") >>,
      << Piece("Newline", "\n"), Piece("Whitespace", "  ") >>,
      << Piece("SingleLineComment", "// c"), Piece("Newline", "\n") >> }

\* A token: its identity in the tree, trimmed text, leading and trailing trivia.
Token(id, leading) ==
    [id |-> id, text |-> "tok", leading |-> leading,
     trailing |-> << Piece("Whitespace", " ") >>]

\* The tree is the ancestor chain 1 (root) .. MaxDepth (innermost node); each
\* node either starts with a token of its own or starts with its child.
Nodes == 1..MaxDepth

OwnTokenChoices(n) == {None} \cup { Some(Token(n, l)) : l \in LeadingTriviaChoices }

Trees == { t \in [Nodes -> UNION { OwnTokenChoices(n) : n \in Nodes }] :
             \A n \in Nodes : t[n] \in OwnTokenChoices(n) }

\* SyntaxNode::first_token (signals.rs:254, 275): the first token in the
\* subtree of node n, None when the subtree holds no token.
RECURSIVE first_token(_, _)
first_token(tree, n) ==
    IF tree[n] # None THEN tree[n]
    ELSE IF n < MaxDepth THEN first_token(tree, n + 1)
    ELSE None

\* SyntaxNode::ancestors (signals.rs:252): the node itself, then its parents
\* up to the root, nearest first.
ancestors(n) == [i \in 1..n |-> n + 1 - i]

\* ctx.root().syntax() (signals.rs:271)
RootNode == 1

\* ------------------------------------------------------------------------
\* RuleSignal (signals.rs:192-309)
\* ------------------------------------------------------------------------
GroupNames == {"correctness", "style"}
RuleNames == {"noVar", "useConst"}
FileIds == {1, 2}

\* BatchMutation: the changes pushed to it, each against a node of the tree.
Mutation(changes) == [changes |-> changes]

\* What R::action may return (crate::RuleAction): nothing, or a fix.
RuleActions ==
    { None,
      Some([category |-> "QuickFix", applicability |-> "Always",
            message |-> "Use const",
            mutation |-> Mutation(<<[op |-> "replace_node", target |-> 2,
                                     text |-> "const"]>>)]),
      Some([category |-> "Refactor", applicability |-> "MaybeIncorrect",
            message |-> "Remove declaration",
            mutation |-> Mutation(<<[op |-> "remove_node", target |-> 0,
                                     text |-> ""]>>)]) }

\* What R::diagnostic may return (crate::RuleDiagnostic).
RuleDiagnostics == { None, Some([message |-> "Use let or const"]) }

\* The signals the analyzer can construct (RuleSignal::new, signals.rs:205-221).
\* ctx_ok: whether RuleContext::new succeeds with the captured services.
Signals ==
    [ file_id : FileIds, ctx_ok : BOOLEAN, group : GroupNames, rule : RuleNames,
      fix : RuleActions, diag : RuleDiagnostics,
      suppress : {None} \cup { Some(n) : n \in Nodes }, tree : Trees ]

\* RuleDiagnostic::into_analyzer_diagnostic (signals.rs:232)
into_analyzer_diagnostic(diag, file_id) ==
    [message |-> diag.message, file_id |-> file_id]

\* The closure of find_map at signals.rs:253-266: does the node's first token
\* have a newline piece in its leading trivia (false without a first token).
starts_line(tree, node) ==
    LET tok == first_token(tree, node) IN
    IF tok = None THEN FALSE
    ELSE \E i \in 1..Len(tok.some.leading) : is_newline(tok.some.leading[i])

\* Faulty variant of find_ancestor: the walk keeps the last match, not the first.
find_ancestor_farthest(tree, node) ==
    LET chain == ancestors(node)
        hits == { i \in 1..Len(chain) : starts_line(tree, chain[i]) }
    IN  IF hits = {} THEN None
        ELSE Some(chain[CHOOSE i \in hits : \A j \in hits : i >= j])

\* signals.rs:252-267: find_map over the ancestors, nearest first.
find_ancestor(tree, node) ==
    LET chain == ancestors(node)
        hits == { i \in 1..Len(chain) : starts_line(tree, chain[i]) }
    IN  IF hits = {} THEN None
        ELSE Some(chain[CHOOSE i \in hits : \A j \in hits : i <= j])

\* signals.rs:251-273: the anchor of the suppression comment.
suppression_node_of(tree, node_to_suppress) ==
    IF node_to_suppress = None THEN None
    ELSE LET ancestor == find_ancestor(tree, node_to_suppress.some) IN
         IF ancestor # None THEN ancestor ELSE Some(RootNode)

\* signals.rs:276-280: format!("lint({}/{})", group, name)
rule_category(group, name) == "lint(" \o group \o "/" \o name \o ")"

\* signals.rs:281: format!("// rome-ignore {}: suppressed", rule)
suppression_comment(group, name) ==
    "// rome-ignore " \o rule_category(group, name) \o ": suppressed"

\* Faulty variant of suppression_trivia: the comment is not put on a line of its own.
suppression_trivia_no_leading_newline(mes) ==
    << Piece("SingleLineComment", mes), Piece("Newline", "\n"), Piece("Newline", "\n") >>

\* signals.rs:284-288: the trivia given to the replacement token.
suppression_trivia(mes) ==
    << Piece("Newline", "\n"), Piece("SingleLineComment", mes), Piece("Newline", "\n") >>

\* Concatenated text of a trivia sequence.
RECURSIVE trivia_text(_)
trivia_text(pieces) ==
    IF pieces = << >> THEN "" ELSE Head(pieces).text \o trivia_text(Tail(pieces))

\* SyntaxToken::with_leading_trivia (called at signals.rs:290; rome_rowan,
\* modelled after the design's section 4.2, step 4: the pieces are put in
\* front of the token's leading trivia).
with_leading_trivia(token, trivia) ==
    [token EXCEPT !.leading = trivia \o @]

\* BatchMutation::replace_token_discard_trivia (called at signals.rs:292).
replace_token_discard_trivia(mutation, prev_token, next_token) ==
    Mutation(Append(mutation.changes,
        [op |-> "replace_token_discard_trivia", target |-> prev_token.id,
         text |-> trivia_text(next_token.leading) \o next_token.text,
         prev_token |-> prev_token, next_token |-> next_token]))

\* signals.rs:240-248: the rule's fix, tagged with the rule's identity.
fix_action(sig, action) ==
    [group_name |-> sig.group, rule_name |-> sig.rule, file_id |-> sig.file_id,
     category |-> action.category, applicability |-> action.applicability,
     mutation |-> action.mutation, message |-> action.message]

\* Faulty variant of suppression_action_of: the token replacement is pushed to
\* the mutation of the rule's fix instead of a fresh one.
suppression_action_of_shared_mutation(sig, suppression_node) ==
    IF suppression_node = None THEN None
    ELSE
        LET first_tok == first_token(sig.tree, suppression_node.some)
            rule == rule_category(sig.group, sig.rule)
            mes == suppression_comment(sig.group, sig.rule)
        IN  IF first_tok = None THEN None
            ELSE
                LET trivia == suppression_trivia(mes)
                    new_token == with_leading_trivia(first_tok.some, trivia)
                    begun == IF sig.fix = None THEN Mutation(<< >>)
                             ELSE sig.fix.some.mutation
                    mutation == replace_token_discard_trivia(
                                    begun, first_tok.some, new_token)
                IN  Some([group_name |-> sig.group, rule_name |-> sig.rule,
                          file_id |-> sig.file_id,
                          category |-> "QuickFix", applicability |-> "Always",
                          mutation |-> mutation,
                          message |-> "Suppress rule " \o rule])

\* signals.rs:274-303: the suppression action for the anchor, None when the
\* anchor has no first token.
suppression_action_of(sig, suppression_node) ==
    IF suppression_node = None THEN None
    ELSE
        LET first_tok == first_token(sig.tree, suppression_node.some)
            rule == rule_category(sig.group, sig.rule)
            mes == suppression_comment(sig.group, sig.rule)
        IN  IF first_tok = None THEN None
            ELSE
                LET trivia == suppression_trivia(mes)
                    new_token == with_leading_trivia(first_tok.some, trivia)
                    mutation == replace_token_discard_trivia(
                                    Mutation(<< >>), first_tok.some, new_token)
                IN  Some([group_name |-> sig.group, rule_name |-> sig.rule,
                          file_id |-> sig.file_id,
                          category |-> "QuickFix", applicability |-> "Always",
                          mutation |-> mutation,
                          message |-> "Suppress rule " \o rule])

\* signals.rs:238-249, 304-306: the Vec the actions are pushed to.
push_opt(actions, opt) == IF opt = None THEN actions ELSE Append(actions, opt.some)

\* Faulty variant of action_list: the suppression action is pushed before the fix.
action_list_suppression_first(sig) ==
    LET fix == IF sig.fix = None THEN None ELSE Some(fix_action(sig, sig.fix.some))
        suppression_node == suppression_node_of(sig.tree, sig.suppress)
    IN  push_opt(push_opt(<< >>, suppression_action_of(sig, suppression_node)), fix)

\* Faulty variant of action_list: a missing suppression action empties the list.
action_list_all_or_nothing(sig) ==
    LET fix == IF sig.fix = None THEN None ELSE Some(fix_action(sig, sig.fix.some))
        suppression_node == suppression_node_of(sig.tree, sig.suppress)
        suppression == suppression_action_of(sig, suppression_node)
    IN  IF suppression_node # None /\ suppression = None THEN << >>
        ELSE push_opt(push_opt(<< >>, fix), suppression)

action_list(sig) ==
    LET fix == IF sig.fix = None THEN None ELSE Some(fix_action(sig, sig.fix.some))
        suppression_node == suppression_node_of(sig.tree, sig.suppress)
    IN  push_opt(push_opt(<< >>, fix), suppression_action_of(sig, suppression_node))

\* AnalyzerActionIter::new (signals.rs:74-79)
AnalyzerActionIter_new(file_id, actions) ==
    [type |-> "AnalyzerActionIter", file_id |-> file_id, iter |-> actions]

\* RuleSignal::diagnostic (signals.rs:228-233)
Diagnostic ==
    /\ signal # Idle
    /\ diagResult = NotCalled
    /\ IF ~signal.ctx_ok
         THEN /\ diagResult' = None
              /\ UNCHANGED ruleCalls
         ELSE /\ diagResult' =
                    IF signal.diag = None THEN None
                    ELSE Some(into_analyzer_diagnostic(signal.diag.some, signal.file_id))
              /\ ruleCalls' = ruleCalls \cup {"diagnostic"}
    /\ UNCHANGED <<signal, actionResult, actionLocals, iterVars, fmtVars>>

\* Faulty variant of Action: a context that fails to build is not noticed.
Action_ignoring_context ==
    /\ signal # Idle
    /\ actionResult = NotCalled
    /\ actionResult' = Some(AnalyzerActionIter_new(signal.file_id, action_list(signal)))
    /\ actionLocals' =
          [node_to_suppress |-> signal.suppress,
           suppression_node |-> suppression_node_of(signal.tree, signal.suppress)]
    /\ ruleCalls' = ruleCalls \cup {"action", "can_suppress"}
    /\ UNCHANGED <<signal, diagResult, iterVars, fmtVars>>

\* RuleSignal::action (signals.rs:235-308)
Action ==
    /\ signal # Idle
    /\ actionResult = NotCalled
    /\ IF ~signal.ctx_ok
         THEN /\ actionResult' = None
              /\ UNCHANGED <<ruleCalls, actionLocals>>
         ELSE /\ actionResult' =
                    Some(AnalyzerActionIter_new(signal.file_id, action_list(signal)))
              /\ actionLocals' =
                    [node_to_suppress |-> signal.suppress,
                     suppression_node |-> suppression_node_of(signal.tree, signal.suppress)]
              /\ ruleCalls' = ruleCalls \cup {"action", "can_suppress"}
    /\ UNCHANGED <<signal, diagResult, iterVars, fmtVars>>

InitSignal ==
    /\ signal \in Signals
    /\ diagResult = NotCalled
    /\ actionResult = NotCalled
    /\ actionLocals = NotCalled
    /\ ruleCalls = {}
    /\ actionsList = Idle /\ iterState = Idle /\ yielded = Idle
    /\ fmtInput = Idle /\ fmtLocals = Idle /\ fmtOut = Idle

NextSignal == Diagnostic \/ Action

SpecSignal == InitSignal /\ [][NextSignal]_vars

\* ------------------------------------------------------------------------
\* AnalyzerActionIter and the result adapters (signals.rs:68-189)
\* ------------------------------------------------------------------------
\* A signal whose action() yields a fix and a suppression action.
SampleSignal(fix) ==
    [ file_id |-> 1, ctx_ok |-> TRUE, group |-> "style", rule |-> "noVar",
      fix |-> fix, diag |-> None, suppress |-> Some(RootNode),
      tree |-> [n \in Nodes |-> Some(Token(n, << Piece("Newline", "\n") >>))] ]

\* The actions the lists given to AnalyzerActionIter::new are made of: the
\* actions RuleSignal::action builds for the fixes of RuleActions.
SampleActions ==
    UNION { { action_list(SampleSignal(fix))[i] :
                i \in 1..Len(action_list(SampleSignal(fix))) } :
            fix \in RuleActions }

\* Sequences over S of length 0..n.
SeqUpTo(S, n) == UNION { [1..m -> S] : m \in 0..n }

\* TextRange::default() and TextEdit::default(), the value of
\* unwrap_or_default() at signals.rs:115, 148.
DefaultTextEdits == [range |-> <<0, 0>>, edit |-> ""]

\* BatchMutation::as_text_edits (called at signals.rs:115, 148; rome_rowan,
\* modelled after the design's sections 3 and 7): the covered range and the
\* text of the edits, None when a change refers to no node of the tree.
as_text_edits(mutation) ==
    LET targets == { mutation.changes[i].target : i \in 1..Len(mutation.changes) }
        lo == CHOOSE t \in targets : \A u \in targets : t <= u
        hi == CHOOSE t \in targets : \A u \in targets : t >= u
    IN  IF targets = {} \/ ~(targets \subseteq Nodes) THEN None
        ELSE Some([range |-> <<lo, hi + 1>>,
                   edit |-> mutation.changes[Len(mutation.changes)].text])

\* Option::unwrap_or_default (signals.rs:115, 148)
unwrap_or_default(opt) == IF opt = None THEN DefaultTextEdits ELSE opt.some

\* Faulty variant of into_iter_next: the vector is consumed from its back.
into_iter_next_back(iter) ==
    IF iter = << >> THEN [result |-> None, iter |-> iter]
    ELSE [result |-> Some(iter[Len(iter)]), iter |-> SubSeq(iter, 1, Len(iter) - 1)]

\* std::vec::IntoIter::next (signals.rs:86, 114, 147)
into_iter_next(iter) ==
    IF iter = << >> THEN [result |-> None, iter |-> iter]
    ELSE [result |-> Some(Head(iter)), iter |-> Tail(iter)]

\* ExactSizeIterator::len of the three iterators (signals.rs:93-95, 127-129, 170-172)
iter_len(it) == Len(it.iter)

\* Faulty variant of advice_next: a mutation that cannot be rendered ends the call
\* with None (the failure is propagated with `?`).
advice_next_propagating(it) ==
    LET n == into_iter_next(it.iter) IN
    IF n.result = None THEN [result |-> None, iter |-> n.iter]
    ELSE IF as_text_edits(n.result.some.mutation) = None
         THEN [result |-> None, iter |-> n.iter]
         ELSE [result |-> Some([applicability |-> n.result.some.applicability,
                                msg |-> n.result.some.message,
                                suggestion |-> as_text_edits(n.result.some.mutation).some.edit]),
               iter |-> n.iter]

\* CodeSuggestionAdviceIter::next (signals.rs:113-121)
advice_next(it) ==
    LET n == into_iter_next(it.iter) IN
    IF n.result = None THEN [result |-> None, iter |-> n.iter]
    ELSE LET action == n.result.some
             edits == unwrap_or_default(as_text_edits(action.mutation))
         IN  [result |-> Some([applicability |-> action.applicability,
                               msg |-> action.message,
                               suggestion |-> edits.edit]),
              iter |-> n.iter]

\* CodeSuggestionIter::next (signals.rs:146-164)
suggestion_next(it) ==
    LET n == into_iter_next(it.iter) IN
    IF n.result = None THEN [result |-> None, iter |-> n.iter]
    ELSE LET action == n.result.some
             edits == unwrap_or_default(as_text_edits(action.mutation))
         IN  [result |-> Some([rule_name |-> action.rule_name,
                               category |-> action.category,
                               suggestion |->
                                   [span |-> [file |-> it.file_id, range |-> edits.range],
                                    applicability |-> action.applicability,
                                    msg |-> action.message,
                                    suggestion |-> edits.edit,
                                    labels |-> << >>]]),
              iter |-> n.iter]

\* next() may be called again on an exhausted iterator, MaxExtraCalls times.
MayCallNext ==
    iterState.iter # << >> \/
    Cardinality({ i \in 1..Len(yielded) : yielded[i].result = None }) < MaxExtraCalls

\* AnalyzerActionIter::next (signals.rs:85-87)
AnalyzerActionIter_next ==
    /\ iterState # Idle /\ iterState.type = "AnalyzerActionIter"
    /\ MayCallNext
    /\ LET n == into_iter_next(iterState.iter) IN
         /\ iterState' = [iterState EXCEPT !.iter = n.iter]
         /\ yielded' = Append(yielded, [by |-> iterState.type, result |-> n.result])
    /\ UNCHANGED <<actionsList, sigVars, fmtVars>>

\* CodeSuggestionAdviceIter::next (signals.rs:113-121)
CodeSuggestionAdviceIter_next ==
    /\ iterState # Idle /\ iterState.type = "CodeSuggestionAdviceIter"
    /\ MayCallNext
    /\ LET n == advice_next(iterState) IN
         /\ iterState' = [iterState EXCEPT !.iter = n.iter]
         /\ yielded' = Append(yielded, [by |-> iterState.type, result |-> n.result])
    /\ UNCHANGED <<actionsList, sigVars, fmtVars>>

\* CodeSuggestionIter::next (signals.rs:146-164)
CodeSuggestionIter_next ==
    /\ iterState # Idle /\ iterState.type = "CodeSuggestionIter"
    /\ MayCallNext
    /\ LET n == suggestion_next(iterState) IN
         /\ iterState' = [iterState EXCEPT !.iter = n.iter]
         /\ yielded' = Append(yielded, [by |-> iterState.type, result |-> n.result])
    /\ UNCHANGED <<actionsList, sigVars, fmtVars>>

\* AnalyzerActionIter::into_code_suggestion_advices (signals.rs:177-181)
into_code_suggestion_advices ==
    /\ iterState # Idle /\ iterState.type = "AnalyzerActionIter"
    /\ iterState' = [type |-> "CodeSuggestionAdviceIter", iter |-> iterState.iter]
    /\ UNCHANGED <<actionsList, yielded, sigVars, fmtVars>>

\* AnalyzerActionIter::into_code_suggestions (signals.rs:183-188)
into_code_suggestions ==
    /\ iterState # Idle /\ iterState.type = "AnalyzerActionIter"
    /\ iterState' = [type |-> "CodeSuggestionIter", file_id |-> iterState.file_id,
                     iter |-> iterState.iter]
    /\ UNCHANGED <<actionsList, yielded, sigVars, fmtVars>>

InitIter ==
    /\ actionsList \in SeqUpTo(SampleActions, MaxActions)
    /\ \E file_id \in FileIds : iterState = AnalyzerActionIter_new(file_id, actionsList)
    /\ yielded = << >>
    /\ signal = Idle /\ diagResult = Idle /\ actionResult = Idle
    /\ actionLocals = Idle /\ ruleCalls = Idle
    /\ fmtInput = Idle /\ fmtLocals = Idle /\ fmtOut = Idle

NextIter ==
    \/ AnalyzerActionIter_next
    \/ CodeSuggestionAdviceIter_next
    \/ CodeSuggestionIter_next
    \/ into_code_suggestion_advices
    \/ into_code_suggestions

SpecIter == InitIter /\ [][NextIter]_vars

\* ------------------------------------------------------------------------
\* Formatter elements and source comments (token.rs)
\* ------------------------------------------------------------------------
\* The builders written to the formatter.
space == [el |-> "space"]
soft_line_break_or_space == [el |-> "soft_line_break_or_space"]
hard_line_break == [el |-> "hard_line_break"]
empty_line == [el |-> "empty_line"]
expand_parent == [el |-> "expand_parent"]
line_suffix(content) == [el |-> "line_suffix", content |-> content]
block_indent(content) == [el |-> "block_indent", content |-> content]

\* FormatRefWithRule::new(comment, Context::CommentRule::default())
\* (token.rs:37, 95, 199): the comment itself, as the comment rule prints it.
format_comment(comment) == [el |-> "comment", comment |-> comment]

CommentKinds == {"Block", "InlineBlock", "Line"}

\* CommentKind::is_line (token.rs:125, 214)
is_line(kind) == kind = "Line"

\* The line counts a comment may carry: 0 .. MaxLines.
LineCounts == 0..MaxLines

\* SourceComment (token.rs:431-436): kind, lines_before, lines_after, piece.
SourceComments ==
    [ kind : CommentKinds, lines_before : LineCounts, lines_after : LineCounts,
      piece : {"a", "b"} ]

\* ------------------------------------------------------------------------
\* FormatLeadingComments::fmt (token.rs:28-62)
\* ------------------------------------------------------------------------
\* Faulty variant of leading_separator: a block comment followed by one line break
\* always gets the soft line break.
leading_separator_always_soft(comment) ==
    IF comment.kind \in {"Block", "InlineBlock"}
    THEN IF comment.lines_after = 0 THEN space
         ELSE IF comment.lines_after = 1 THEN soft_line_break_or_space
         ELSE empty_line
    ELSE IF comment.lines_after \in {0, 1} THEN hard_line_break
         ELSE empty_line

\* token.rs:40-58: the separator written after a leading comment.
leading_separator(comment) ==
    IF comment.kind \in {"Block", "InlineBlock"}
    THEN IF comment.lines_after = 0 THEN space
         ELSE IF comment.lines_after = 1
              THEN IF comment.lines_before = 0 THEN soft_line_break_or_space
                   ELSE hard_line_break
         ELSE empty_line
    ELSE IF comment.lines_after \in {0, 1} THEN hard_line_break
         ELSE empty_line

\* token.rs:36-59: one iteration of the loop over the leading comments.
FormatLeadingComments_step ==
    /\ fmtInput # Idle /\ fmtInput.builder = "FormatLeadingComments"
    /\ fmtLocals.next <= Len(fmtInput.comments)
    /\ LET comment == fmtInput.comments[fmtLocals.next] IN
         fmtOut' = fmtOut \o << format_comment(comment), leading_separator(comment) >>
    /\ fmtLocals' = [fmtLocals EXCEPT !.next = @ + 1]
    /\ UNCHANGED <<fmtInput, sigVars, iterVars>>

InitLeading ==
    /\ \E comments \in SeqUpTo(SourceComments, MaxComments) :
          fmtInput = [builder |-> "FormatLeadingComments", comments |-> comments]
    /\ fmtLocals = [next |-> 1]
    /\ fmtOut = << >>
    /\ signal = Idle /\ diagResult = Idle /\ actionResult = Idle
    /\ actionLocals = Idle /\ ruleCalls = Idle
    /\ actionsList = Idle /\ iterState = Idle /\ yielded = Idle

NextLeading == FormatLeadingComments_step

SpecLeading == InitLeading /\ [][NextLeading]_vars

\* ------------------------------------------------------------------------
\* FormatTrailingComments::fmt (token.rs:83-134)
\* ------------------------------------------------------------------------
\* Faulty variant of trailing_elements: the placement is decided by the comment's own
\* lines_before, not by the running total.
trailing_elements_own_lines(comment, total_lines_before) ==
    IF comment.lines_before > 0
    THEN << line_suffix(<< IF comment.lines_before \in {0, 1}
                           THEN hard_line_break ELSE empty_line,
                           format_comment(comment) >>),
            expand_parent >>
    ELSE IF is_line(comment.kind)
         THEN << line_suffix(<< space, format_comment(comment) >>), expand_parent >>
         ELSE << space, format_comment(comment) >>

\* token.rs:108-130: what is written for one trailing comment, given the
\* running total of lines_before including its own.
trailing_elements(comment, total_lines_before) ==
    IF total_lines_before > 0
    THEN << line_suffix(<< IF comment.lines_before \in {0, 1}
                           THEN hard_line_break ELSE empty_line,
                           format_comment(comment) >>),
            expand_parent >>
    ELSE IF is_line(comment.kind)
         THEN << line_suffix(<< space, format_comment(comment) >>), expand_parent >>
         ELSE << space, format_comment(comment) >>

\* token.rs:92-131: one iteration of the loop over the trailing comments.
FormatTrailingComments_step ==
    /\ fmtInput # Idle /\ fmtInput.builder = "FormatTrailingComments"
    /\ fmtLocals.next <= Len(fmtInput.comments)
    /\ LET comment == fmtInput.comments[fmtLocals.next]
           total == fmtLocals.total_lines_before + comment.lines_before
       IN  /\ fmtOut' = fmtOut \o trailing_elements(comment, total)
           /\ fmtLocals' = [next |-> fmtLocals.next + 1, total_lines_before |-> total]
    /\ UNCHANGED <<fmtInput, sigVars, iterVars>>

InitTrailing ==
    /\ \E comments \in SeqUpTo(SourceComments, MaxComments) :
          fmtInput = [builder |-> "FormatTrailingComments", comments |-> comments]
    /\ fmtLocals = [next |-> 1, total_lines_before |-> 0]
    /\ fmtOut = << >>
    /\ signal = Idle /\ diagResult = Idle /\ actionResult = Idle
    /\ actionLocals = Idle /\ ruleCalls = Idle
    /\ actionsList = Idle /\ iterState = Idle /\ yielded = Idle

NextTrailing == FormatTrailingComments_step

SpecTrailing == InitTrailing /\ [][NextTrailing]_vars

\* ------------------------------------------------------------------------
\* FormatDanglingComments::fmt (token.rs:179-221)
\* ------------------------------------------------------------------------
\* f.join_with(hard_line_break()) over the comments (token.rs:196-204)
RECURSIVE join_with_hard_line_break(_)
join_with_hard_line_break(comments) ==
    IF comments = << >> THEN << >>
    ELSE IF Len(comments) = 1 THEN << format_comment(comments[1]) >>
    ELSE << format_comment(Head(comments)), hard_line_break >>
            \o join_with_hard_line_break(Tail(comments))

\* Faulty variant of format_dangling_comments: a non-indented run is always
\* followed by a hard line break, whatever the kind of its last comment.
format_dangling_comments_always_break(comments, indent) ==
    IF comments = << >> THEN << >>
    ELSE LET joined == (IF indent THEN << hard_line_break >> ELSE << >>)
                         \o join_with_hard_line_break(comments)
         IN  IF indent THEN << block_indent(joined) >>
             ELSE joined \o << hard_line_break >>

\* token.rs:186-220: the elements written for a list of dangling comments.
format_dangling_comments(comments, indent) ==
    IF comments = << >> THEN << >>
    ELSE LET joined == (IF indent THEN << hard_line_break >> ELSE << >>)
                         \o join_with_hard_line_break(comments)
         IN  IF indent THEN << block_indent(joined) >>
             ELSE joined \o (IF is_line(comments[Len(comments)].kind)
                             THEN << hard_line_break >> ELSE << >>)

\* token.rs:159-165: indented() asks for the indented rendering; it is called
\* on the builder before it is formatted.
FormatDanglingComments_indented ==
    /\ fmtInput # Idle /\ fmtInput.builder = "FormatDanglingComments"
    /\ fmtLocals.pc = "built"
    /\ ~fmtInput.indent
    /\ fmtInput' = [fmtInput EXCEPT !.indent = TRUE]
    /\ UNCHANGED <<fmtLocals, fmtOut, sigVars, iterVars>>

\* token.rs:179-221: fmt() of FormatDanglingComments::Comments.
FormatDanglingComments_fmt ==
    /\ fmtInput # Idle /\ fmtInput.builder = "FormatDanglingComments"
    /\ fmtLocals.pc = "built"
    /\ fmtOut' = fmtOut \o format_dangling_comments(fmtInput.comments, fmtInput.indent)
    /\ fmtLocals' = [pc |-> "done"]
    /\ UNCHANGED <<fmtInput, sigVars, iterVars>>

\* token.rs:152-155: a Comments builder over a slice of comments; the
\* constructors build it with indent false (token.rs:140-143, 506-509).
InitDangling ==
    /\ \E comments \in SeqUpTo(SourceComments, MaxComments) :
          fmtInput = [builder |-> "FormatDanglingComments",
                      comments |-> comments, indent |-> FALSE]
    /\ fmtLocals = [pc |-> "built"]
    /\ fmtOut = << >>
    /\ signal = Idle /\ diagResult = Idle /\ actionResult = Idle
    /\ actionLocals = Idle /\ ruleCalls = Idle
    /\ actionsList = Idle /\ iterState = Idle /\ yielded = Idle

NextDangling ==
    \/ FormatDanglingComments_indented
    \/ FormatDanglingComments_fmt

SpecDangling == InitDangling /\ [][NextDangling]_vars

\* ------------------------------------------------------------------------
\* FormatSkippedTokenTrivia::fmt (token.rs:389-518)
\* ------------------------------------------------------------------------
\* The trivia pieces of the formatted source.
is_whitespace(piece) == piece.kind = "Whitespace"
is_skipped(piece) == piece.kind = "Skipped"
is_comment(piece) == piece.kind \in {"SingleLineComment", "MultiLineComment"}

FmtPieces ==
    { Piece("Whitespace", " "), Piece("Newline", "\n"),
      Piece("SingleLineComment", "// a"), Piece("MultiLineComment", "/* b */"),
      Piece("Skipped", "garbage") }

\* The leading trivia of scenario B: two newlines, a comment, skipped text,
\* a space and a second comment.
ScenarioBTrivia ==
    << Piece("Newline", "\n"), Piece("Newline", "\n"),
       Piece("SingleLineComment", "// a"), Piece("Skipped", "garbage"),
       Piece("Whitespace", " "), Piece("SingleLineComment", "// b") >>

\* token.prev_token() and its trailing trivia (token.rs:395-399): no previous
\* token, or one followed by this trivia (trailing trivia holds no newline).
PrevTokenChoices ==
    { None,
      Some(<< >>),
      Some(<< Piece("Whitespace", " ") >>),
      Some(<< Piece("MultiLineComment", "/* t */"), Piece("Whitespace", " "),
              Piece("Whitespace", " ") >>) }

\* The tokens handed to format_skipped_token_trivia (token.rs:375-379).
SkippedInputs ==
    { [prev_token |-> prev, leading |-> leading] :
        prev \in PrevTokenChoices,
        leading \in SeqUpTo(FmtPieces, MaxPieces) \cup {ScenarioBTrivia} }

\* token.text_range().start() (token.rs:473): where the leading trivia starts.
token_start(token) ==
    IF token.prev_token = None THEN 0
    ELSE Len("tok") + Len(trivia_text(token.prev_token.some))

\* piece.text_range() (token.rs:444, 462) of the i-th leading piece.
text_range(token, i) ==
    LET start == token_start(token) + Len(trivia_text(SubSeq(token.leading, 1, i - 1)))
    IN  << start, start + Len(token.leading[i].text) >>

\* f.comments().has_skipped(token) (token.rs:390)
has_skipped(token) == \E i \in 1..Len(token.leading) : is_skipped(token.leading[i])

\* Context::Style::get_comment_kind (token.rs:432)
get_comment_kind(piece) ==
    IF piece.kind = "SingleLineComment" THEN "Line" ELSE "InlineBlock"

\* token.rs:399-408: the backwards walk over the previous token's trailing
\* trivia, from piece i down to the first piece that is no whitespace.
RECURSIVE seed_from(_, _, _)
seed_from(pieces, i, counters) ==
    IF i = 0 THEN counters
    ELSE IF is_whitespace(pieces[i])
         THEN seed_from(pieces, i - 1, [counters EXCEPT !.spaces = @ + 1])
    ELSE IF is_newline(pieces[i])
         THEN seed_from(pieces, i - 1, [lines |-> counters.lines + 1, spaces |-> 0])
    ELSE counters

\* token.rs:395-413: lines / spaces before the token.
seed_counters(token) ==
    IF token.prev_token = None THEN [lines |-> 0, spaces |-> 0]
    ELSE seed_from(token.prev_token.some, Len(token.prev_token.some),
                   [lines |-> 0, spaces |-> 0])

\* Faulty variant of cover: the range restarts at the latest skipped piece.
cover_latest(range, other) == other

\* TextRange::cover (token.rs:444)
cover(range, other) ==
    << IF range[1] < other[1] THEN range[1] ELSE other[1],
       IF range[2] > other[2] THEN range[2] ELSE other[2] >>

\* Faulty variant of separator_before_skipped: buffered comments are ignored,
\* so the separator is left out when no line or space was counted.
separator_before_skipped_ignoring_comments(locals) ==
    IF locals.lines = 0
    THEN IF locals.spaces = 0 THEN << >> ELSE << space >>
    ELSE << hard_line_break >>

\* token.rs:446-460: the separator written before the first skipped piece.
separator_before_skipped(locals) ==
    IF locals.dangling_comments = << >>
    THEN IF locals.lines = 0
         THEN IF locals.spaces = 0 THEN << >> ELSE << space >>
         ELSE << hard_line_break >>
    ELSE IF locals.lines = 0 THEN << space >>
         ELSE IF locals.lines = 1 THEN << hard_line_break >>
         ELSE << empty_line >>

\* syntax_token_text_slice(token, range) (token.rs:477): the source text of
\* the token's leading trivia inside range.
RECURSIVE text_slice(_, _, _)
text_slice(token, range, i) ==
    IF i > Len(token.leading) THEN ""
    ELSE (IF range[1] <= text_range(token, i)[1] /\ text_range(token, i)[2] <= range[2]
          THEN token.leading[i].text ELSE "")
         \o text_slice(token, range, i + 1)

\* token.rs:475-483: the verbatim element.
verbatim(token, range) ==
    [el |-> "verbatim", text |-> text_slice(token, range, 1), range |-> range,
     len |-> range[2] - range[1]]

\* Faulty variant of separator_after_skipped: the separator before the
\* buffered comments is chosen by the lines counter, as it is before the
\* skipped span, not by the first comment's lines_before.
separator_after_skipped_by_lines(locals) ==
    IF locals.dangling_comments = << >>
    THEN IF locals.lines = 0
         THEN IF locals.spaces = 0 THEN << >> ELSE << space >>
         ELSE << hard_line_break >>
    ELSE (IF locals.lines = 0 THEN << space >>
          ELSE IF locals.lines = 1 THEN << hard_line_break >>
          ELSE << empty_line >>)
         \o format_dangling_comments(locals.dangling_comments, FALSE)
         \o (IF locals.lines = 0 THEN << space >> ELSE << hard_line_break >>)

\* Faulty variant of separator_after_skipped: the buffered comments are not
\* written.
separator_after_skipped_without_comments(locals) ==
    IF locals.lines = 0
    THEN IF locals.spaces = 0 THEN << >> ELSE << space >>
    ELSE << hard_line_break >>

\* token.rs:488-516: the separator, dangling comments and final separator
\* written after the verbatim element.
separator_after_skipped(locals) ==
    IF locals.dangling_comments = << >>
    THEN IF locals.lines = 0
         THEN IF locals.spaces = 0 THEN << >> ELSE << space >>
         ELSE << hard_line_break >>
    ELSE (IF locals.dangling_comments[1].lines_before = 0 THEN << space >>
          ELSE IF locals.dangling_comments[1].lines_before = 1 THEN << hard_line_break >>
          ELSE << empty_line >>)
         \o format_dangling_comments(locals.dangling_comments, FALSE)
         \o (IF locals.lines = 0 THEN << space >> ELSE << hard_line_break >>)

\* token.rs:389-417: the early return for a token without skipped trivia, the
\* counters seeded from the previous token, the empty locals.
FormatSkippedTokenTrivia_begin ==
    /\ fmtInput # Idle /\ fmtInput.builder = "FormatSkippedTokenTrivia"
    /\ fmtLocals.pc = "begin"
    /\ IF ~has_skipped(fmtInput.token)
       THEN fmtLocals' = [fmtLocals EXCEPT !.pc = "done"]
       ELSE fmtLocals' =
              [pc |-> "scan", next |-> 1,
               lines |-> seed_counters(fmtInput.token).lines,
               spaces |-> seed_counters(fmtInput.token).spaces,
               dangling_comments |-> << >>, skipped_range |-> None]
    /\ UNCHANGED <<fmtInput, fmtOut, sigVars, iterVars>>

\* token.rs:421-470: one iteration of the loop over the leading trivia.
FormatSkippedTokenTrivia_piece ==
    /\ fmtInput # Idle /\ fmtInput.builder = "FormatSkippedTokenTrivia"
    /\ fmtLocals.pc = "scan"
    /\ fmtLocals.next <= Len(fmtInput.token.leading)
    /\ LET piece == fmtInput.token.leading[fmtLocals.next]
           range == text_range(fmtInput.token, fmtLocals.next)
           l == [fmtLocals EXCEPT !.next = @ + 1]
       IN  IF is_whitespace(piece)
           THEN /\ fmtLocals' = [l EXCEPT !.spaces = @ + 1]
                /\ UNCHANGED fmtOut
           ELSE IF is_newline(piece)
           THEN /\ fmtLocals' = [l EXCEPT !.lines = @ + 1, !.spaces = 0]
                /\ UNCHANGED fmtOut
           ELSE IF is_comment(piece)
           THEN /\ fmtLocals' =
                      [l EXCEPT !.dangling_comments =
                                    Append(@, [kind |-> get_comment_kind(piece),
                                               lines_before |-> fmtLocals.lines,
                                               lines_after |-> 0,
                                               piece |-> [text |-> piece.text,
                                                          range |-> range]]),
                                !.lines = 0, !.spaces = 0]
                /\ UNCHANGED fmtOut
           ELSE /\ is_skipped(piece)
                /\ fmtOut' = IF fmtLocals.skipped_range # None THEN fmtOut
                             ELSE fmtOut \o separator_before_skipped(fmtLocals)
                /\ fmtLocals' =
                      [l EXCEPT !.skipped_range =
                                    IF fmtLocals.skipped_range # None
                                    THEN Some(cover(fmtLocals.skipped_range.some, range))
                                    ELSE Some(range),
                                !.lines = 0, !.spaces = 0,
                                !.dangling_comments = << >>]
    /\ UNCHANGED <<fmtInput, sigVars, iterVars>>

\* token.rs:472-517: the verbatim element and what follows it.
FormatSkippedTokenTrivia_finish ==
    /\ fmtInput # Idle /\ fmtInput.builder = "FormatSkippedTokenTrivia"
    /\ fmtLocals.pc = "scan"
    /\ fmtLocals.next > Len(fmtInput.token.leading)
    /\ LET skipped_range ==
               IF fmtLocals.skipped_range # None THEN fmtLocals.skipped_range.some
               ELSE << token_start(fmtInput.token), token_start(fmtInput.token) >>
       IN  fmtOut' = fmtOut \o << verbatim(fmtInput.token, skipped_range) >>
                            \o separator_after_skipped(fmtLocals)
    /\ fmtLocals' = [fmtLocals EXCEPT !.pc = "done"]
    /\ UNCHANGED <<fmtInput, sigVars, iterVars>>

InitSkipped ==
    /\ \E token \in SkippedInputs :
          fmtInput = [builder |-> "FormatSkippedTokenTrivia", token |-> token]
    /\ fmtLocals = [pc |-> "begin"]
    /\ fmtOut = << >>
    /\ signal = Idle /\ diagResult = Idle /\ actionResult = Idle
    /\ actionLocals = Idle /\ ruleCalls = Idle
    /\ actionsList = Idle /\ iterState = Idle /\ yielded = Idle

NextSkipped ==
    \/ FormatSkippedTokenTrivia_begin
    \/ FormatSkippedTokenTrivia_piece
    \/ FormatSkippedTokenTrivia_finish

SpecSkipped == InitSkipped /\ [][NextSkipped]_vars

\* ------------------------------------------------------------------------
\* Claims about RuleSignal (checked under SpecSignal)
\* ------------------------------------------------------------------------
ActionReturnedList == actionResult # NotCalled /\ actionResult # None
ReturnedList == actionResult.some.iter

\* An action of the returned list is the rule's fix / the suppression action.
IsFix(a) ==
    /\ signal.fix # None
    /\ a.message = signal.fix.some.message
    /\ a.mutation = signal.fix.some.mutation
IsSuppression(a) ==
    /\ Len(a.mutation.changes) = 1
    /\ a.mutation.changes[1].op = "replace_token_discard_trivia"

\* C1: the list action() returns is [fix?] followed by [suppression?]: at most
\* one of each, nothing else, and the fix before the suppression action.
C1_FixBeforeSuppression ==
    ActionReturnedList =>
        LET L == ReturnedList IN
        /\ \A i \in 1..Len(L) : IsFix(L[i]) \/ IsSuppression(L[i])
        /\ Cardinality({ i \in 1..Len(L) : IsFix(L[i]) }) <= 1
        /\ Cardinality({ i \in 1..Len(L) : IsSuppression(L[i]) }) <= 1
        /\ \A i, j \in 1..Len(L) : IsFix(L[i]) /\ IsSuppression(L[j]) => i < j
        /\ signal.fix # None => Len(L) >= 1 /\ IsFix(L[1])

C1_Witness ==
    /\ ActionReturnedList
    /\ Len(ReturnedList) = 2
    /\ IsFix(ReturnedList[1]) /\ IsSuppression(ReturnedList[2])

\* The suppression actions of the returned list.
Suppressions ==
    IF ActionReturnedList
    THEN { ReturnedList[i] : i \in { j \in 1..Len(ReturnedList) : IsSuppression(ReturnedList[j]) } }
    ELSE {}

\* C2 (as claimed): the synthesized comment is `// rule-ignore G/N: suppressed`
\* and the inserted trivia text is newline, that comment, newline.
C2_CommentIsRuleIgnore ==
    \A a \in Suppressions :
        LET inserted == SubSeq(a.mutation.changes[1].next_token.leading, 1, 3)
            expected == "// rule-ignore " \o signal.group \o "/" \o signal.rule
                            \o ": suppressed"
        IN  /\ inserted[2].text = expected
            /\ trivia_text(inserted) = "\n" \o expected \o "\n"

\* C2 (amended): the synthesized comment is `// rome-ignore lint(G/N): suppressed`;
\* the replacement of the anchor's first token starts with the three pieces
\* newline, comment, newline, whose text is `\n// rome-ignore lint(G/N): suppressed\n`.
C2_CommentIsRomeIgnoreLint ==
    \A a \in Suppressions :
        LET change == a.mutation.changes[1]
            inserted == SubSeq(change.next_token.leading, 1, 3)
            expected == "// rome-ignore lint(" \o signal.group \o "/" \o signal.rule
                            \o "): suppressed"
        IN  /\ <<inserted[1].kind, inserted[2].kind, inserted[3].kind>>
                  = <<"Newline", "SingleLineComment", "Newline">>
            /\ inserted[2].text = expected
            /\ trivia_text(inserted) = "\n" \o expected \o "\n"
            /\ (signal.group = "style" /\ signal.rule = "noVar") =>
                  trivia_text(inserted) = "\n// rome-ignore lint(style/noVar): suppressed\n"
            /\ Some(change.prev_token) =
                  first_token(signal.tree, actionLocals.suppression_node.some)

C2_Witness ==
    /\ Suppressions # {}
    /\ signal.group = "style" /\ signal.rule = "noVar"

\* C3: when the evaluation context cannot be built, diagnostic() and action()
\* both return None and no Rule method is called; when it can, action()
\* returns a list.
C3_ContextFailureYieldsNone ==
    /\ ~signal.ctx_ok =>
          /\ diagResult \in {NotCalled, None}
          /\ actionResult \in {NotCalled, None}
          /\ ruleCalls = {}
    /\ (signal.ctx_ok /\ actionResult # NotCalled) =>
          /\ actionResult # None
          /\ actionResult.some.iter \in Seq(UNION {{fix_action(signal, f.some) : f \in RuleActions \ {None}},
                                                   Suppressions})

C3_Witness ==
    /\ ~signal.ctx_ok
    /\ signal.fix # None /\ signal.diag # None /\ signal.suppress # None
    /\ diagResult = None /\ actionResult = None

\* C4: when the anchor has no first token, the returned list is the list of a
\* rule that is not suppressible: the untouched fix if there is one, else empty.
C4_MissingAnchorToken ==
    (/\ ActionReturnedList
     /\ actionLocals.suppression_node # None
     /\ first_token(signal.tree, actionLocals.suppression_node.some) = None) =>
        ReturnedList =
            IF signal.fix = None THEN << >>
            ELSE << [group_name |-> signal.group, rule_name |-> signal.rule,
                     file_id |-> signal.file_id,
                     category |-> signal.fix.some.category,
                     applicability |-> signal.fix.some.applicability,
                     message |-> signal.fix.some.message,
                     mutation |-> signal.fix.some.mutation] >>

C4_Witness ==
    /\ ActionReturnedList
    /\ actionLocals.suppression_node # None
    /\ first_token(signal.tree, actionLocals.suppression_node.some) = None
    /\ signal.fix # None
    /\ Len(ReturnedList) = 1

\* C5: the anchor is the nearest node of the suppressible node's ancestor
\* chain whose first token has a newline in its leading trivia, and the root
\* when no node of the chain has one.
C5_AnchorIsNearestLineStart ==
    (actionLocals # NotCalled /\ actionLocals.node_to_suppress # None) =>
        LET n == actionLocals.node_to_suppress.some
            chain == { m \in Nodes : m <= n }
            fresh == { m \in chain :
                        /\ first_token(signal.tree, m) # None
                        /\ \E p \in 1..Len(first_token(signal.tree, m).some.leading) :
                              first_token(signal.tree, m).some.leading[p].kind = "Newline" }
        IN  /\ actionLocals.suppression_node # None
            /\ IF fresh = {}
               THEN actionLocals.suppression_node.some = RootNode
               ELSE /\ actionLocals.suppression_node.some \in fresh
                    /\ \A m \in fresh : m <= actionLocals.suppression_node.some

\* The anchor is a proper ancestor below the root, and a nearer node of the
\* chain has a first token without a newline.
C5_Witness ==
    /\ actionLocals # NotCalled
    /\ actionLocals.node_to_suppress = Some(3)
    /\ actionLocals.suppression_node = Some(2)
    /\ signal.tree[3] # None
    /\ starts_line(signal.tree, 1)

\* ------------------------------------------------------------------------
\* Claims about the iterators (checked under SpecIter)
\* ------------------------------------------------------------------------
\* The message the item of a next() call carries.
ItemMessage(y) ==
    IF y.by = "AnalyzerActionIter" THEN y.result.some.message
    ELSE IF y.by = "CodeSuggestionAdviceIter" THEN y.result.some.msg
    ELSE y.result.some.suggestion.msg

\* C6: after k calls to next() over a list of n actions, len() is
\* max(n - k, 0); the first n calls yield the actions' items in list order,
\* also across a conversion into an adapter; every later call yields None.
C6_SinglePassExactLength ==
    LET n == Len(actionsList)
        k == Len(yielded)
    IN  /\ iter_len(iterState) = IF n - k > 0 THEN n - k ELSE 0
        /\ \A i \in 1..k :
              IF i <= n
              THEN /\ yielded[i].result # None
                   /\ ItemMessage(yielded[i]) = actionsList[i].message
                   /\ yielded[i].by = "AnalyzerActionIter" =>
                         yielded[i].result.some = actionsList[i]
              ELSE yielded[i].result = None
        /\ iterState.iter = SubSeq(actionsList, (IF k < n THEN k ELSE n) + 1, n)

\* A partly consumed action iterator was converted, the adapter consumed the
\* rest in order and then answered None.
C6_Witness ==
    /\ Len(actionsList) = 3
    /\ Len(yielded) = 4
    /\ actionsList[1].message # actionsList[2].message
    /\ actionsList[2].message # actionsList[3].message
    /\ yielded[1].by = "AnalyzerActionIter"
    /\ yielded[2].by = "CodeSuggestionIter"
    /\ yielded[4].result = None

\* C7: an action whose mutation has no text edits is still yielded by both
\* adapters, with its own applicability and message (flat adapter: category,
\* rule name and the iterator's file id too), an empty edit and the default
\* range; the actions after it are still yielded.
C7_UnrenderableMutationYieldsEmptyEdit ==
    \A i \in 1..Len(yielded) :
        (/\ i <= Len(actionsList)
         /\ yielded[i].by # "AnalyzerActionIter"
         /\ \E c \in 1..Len(actionsList[i].mutation.changes) :
               actionsList[i].mutation.changes[c].target \notin Nodes) =>
            /\ yielded[i].result # None
            /\ LET item == yielded[i].result.some
                   a == actionsList[i]
               IN  IF yielded[i].by = "CodeSuggestionAdviceIter"
                   THEN item = [applicability |-> a.applicability, msg |-> a.message,
                                suggestion |-> ""]
                   ELSE item = [rule_name |-> a.rule_name, category |-> a.category,
                                suggestion |->
                                    [span |-> [file |-> iterState.file_id, range |-> <<0, 0>>],
                                     applicability |-> a.applicability,
                                     msg |-> a.message,
                                     suggestion |-> "",
                                     labels |-> << >>]]
            /\ \A j \in (i + 1)..Len(yielded) :
                  j <= Len(actionsList) => yielded[j].result # None

\* The advice adapter yielded an unrenderable action and then the next one.
C7_Witness ==
    /\ Len(yielded) >= 2 /\ Len(actionsList) >= 2
    /\ yielded[1].by = "CodeSuggestionAdviceIter"
    /\ actionsList[1].mutation.changes[1].target \notin Nodes
    /\ yielded[1].result # None
    /\ yielded[1].result.some.suggestion = ""
    /\ yielded[2].result # None
    /\ yielded[2].result.some.suggestion # ""

\* ------------------------------------------------------------------------
\* Claims about the leading comments (checked under SpecLeading)
\* ------------------------------------------------------------------------
\* The comments the running loop has already formatted.
FormattedSoFar == fmtLocals.next - 1

\* C9: each leading comment is written in source order, followed by exactly
\* one separator decided by kind, lines_after and lines_before alone:
\* block / inline block: 0 lines after -> space; 1 -> soft line break (or
\* space) if lines_before = 0, else hard line break; >= 2 -> empty line;
\* line comment: 0 or 1 lines after -> hard line break; >= 2 -> empty line.
C9_LeadingSeparators ==
    /\ Len(fmtOut) = 2 * FormattedSoFar
    /\ \A i \in 1..FormattedSoFar :
          LET c == fmtInput.comments[i] IN
          /\ fmtOut[2 * i - 1] = [el |-> "comment", comment |-> c]
          /\ fmtOut[2 * i].el =
                CASE c.kind # "Line" /\ c.lines_after = 0 -> "space"
                  [] c.kind # "Line" /\ c.lines_after = 1 /\ c.lines_before = 0
                        -> "soft_line_break_or_space"
                  [] c.kind # "Line" /\ c.lines_after = 1 /\ c.lines_before > 0
                        -> "hard_line_break"
                  [] c.kind # "Line" /\ c.lines_after >= 2 -> "empty_line"
                  [] c.kind = "Line" /\ c.lines_after <= 1 -> "hard_line_break"
                  [] c.kind = "Line" /\ c.lines_after >= 2 -> "empty_line"

\* Two comments were formatted: a block comment with one line after and none
\* before, then a block comment with one line after and one before.
C9_Witness ==
    /\ FormattedSoFar = 2
    /\ fmtInput.comments[1].kind = "Block"
    /\ fmtInput.comments[1].lines_after = 1 /\ fmtInput.comments[1].lines_before = 0
    /\ fmtInput.comments[2].kind = "Block"
    /\ fmtInput.comments[2].lines_after = 1 /\ fmtInput.comments[2].lines_before = 1
    /\ fmtInput.comments[1].piece # fmtInput.comments[2].piece
    /\ fmtOut[2] = soft_line_break_or_space
    /\ fmtOut[4] = hard_line_break

\* ------------------------------------------------------------------------
\* Claims about the trailing comments (checked under SpecTrailing)
\* ------------------------------------------------------------------------
\* Sum of lines_before over comments 1..i.
RECURSIVE LinesBeforeUpTo(_, _)
LinesBeforeUpTo(comments, i) ==
    IF i = 0 THEN 0 ELSE comments[i].lines_before + LinesBeforeUpTo(comments, i - 1)

\* The i-th trailing comment was written on a line of its own.
OnOwnLine(i) ==
    /\ fmtOut[2 * i - 1].el = "line_suffix"
    /\ fmtOut[2 * i - 1].content[1].el \in {"hard_line_break", "empty_line"}

\* C10: the i-th trailing comment is inline (space, comment; a line suffix for
\* a line comment) exactly when the lines_before of comments 1..i sum to 0;
\* otherwise it is on its own line, after a hard line break (lines_before 0
\* or 1) or an empty line (>= 2), and expands the parent group. Once one
\* comment is on its own line, all later ones are.
C10_TrailingPlacement ==
    /\ Len(fmtOut) = 2 * FormattedSoFar
    /\ \A i \in 1..FormattedSoFar :
          LET c == fmtInput.comments[i]
              written == << fmtOut[2 * i - 1], fmtOut[2 * i] >>
              comment_el == [el |-> "comment", comment |-> c]
          IN  IF LinesBeforeUpTo(fmtInput.comments, i) = 0
              THEN /\ ~OnOwnLine(i)
                   /\ written =
                        IF c.kind = "Line"
                        THEN << [el |-> "line_suffix",
                                 content |-> << [el |-> "space"], comment_el >>],
                                [el |-> "expand_parent"] >>
                        ELSE << [el |-> "space"], comment_el >>
              ELSE /\ OnOwnLine(i)
                   /\ written =
                        << [el |-> "line_suffix",
                            content |-> << [el |-> IF c.lines_before <= 1
                                                   THEN "hard_line_break"
                                                   ELSE "empty_line"],
                                           comment_el >>],
                           [el |-> "expand_parent"] >>
    /\ \A i, j \in 1..FormattedSoFar : (i < j /\ OnOwnLine(i)) => OnOwnLine(j)

\* The first comment has one line before it and goes on its own line, and so
\* does the block comment after it, whose own lines_before is 0.
C10_Witness ==
    /\ FormattedSoFar = 2
    /\ fmtInput.comments[1].lines_before = 1
    /\ fmtInput.comments[2].lines_before = 0
    /\ fmtInput.comments[2].kind = "Block"
    /\ OnOwnLine(1) /\ OnOwnLine(2)
    /\ fmtOut[3].content[1] = hard_line_break
    /\ fmtOut[4] = expand_parent

\* ------------------------------------------------------------------------
\* Claims about the skipped-trivia renderer (checked under SpecSkipped)
\* ------------------------------------------------------------------------
SkippedDone == fmtLocals.pc = "done"
LeadingTrivia == fmtInput.token.leading
SkippedPieces == { i \in 1..Len(LeadingTrivia) : LeadingTrivia[i].kind = "Skipped" }
FirstSkipped == CHOOSE i \in SkippedPieces : \A j \in SkippedPieces : i <= j
LastSkipped == CHOOSE i \in SkippedPieces : \A j \in SkippedPieces : i >= j

\* Byte offsets of the i-th leading piece in the source.
PieceStart(i) ==
    token_start(fmtInput.token) + Len(trivia_text(SubSeq(LeadingTrivia, 1, i - 1)))
PieceEnd(i) == PieceStart(i) + Len(LeadingTrivia[i].text)

\* The written elements that carry source text of the bytes [from, to).
Carrying(from, to) ==
    { j \in 1..Len(fmtOut) :
        \/ /\ fmtOut[j].el = "verbatim"
           /\ fmtOut[j].range[1] <= from /\ to <= fmtOut[j].range[2]
        \/ /\ fmtOut[j].el = "comment"
           /\ fmtOut[j].comment.piece.range[1] <= from
           /\ to <= fmtOut[j].comment.piece.range[2] }

\* C8: for a token whose leading trivia has a skipped piece, exactly one
\* verbatim element is written; it runs from the start of the first skipped
\* piece to the end of the last one and carries that source text, so each
\* skipped piece is written exactly once.
C8_OneVerbatimCoversSkipped ==
    (SkippedDone /\ SkippedPieces # {}) =>
        /\ Cardinality({ j \in 1..Len(fmtOut) : fmtOut[j].el = "verbatim" }) = 1
        /\ \A j \in 1..Len(fmtOut) :
              fmtOut[j].el = "verbatim" =>
                /\ fmtOut[j].range = << PieceStart(FirstSkipped), PieceEnd(LastSkipped) >>
                /\ fmtOut[j].len = PieceEnd(LastSkipped) - PieceStart(FirstSkipped)
                /\ fmtOut[j].text =
                      trivia_text(SubSeq(LeadingTrivia, FirstSkipped, LastSkipped))
        /\ \A i \in SkippedPieces :
              Cardinality(Carrying(PieceStart(i), PieceEnd(i))) = 1

\* Two skipped pieces with a newline and a comment between them were rendered.
C8_Witness ==
    /\ SkippedDone
    /\ Cardinality(SkippedPieces) = 2
    /\ \E i, j \in 1..Len(LeadingTrivia) :
          /\ FirstSkipped < i /\ i < LastSkipped
          /\ FirstSkipped < j /\ j < LastSkipped
          /\ LeadingTrivia[i].kind = "Newline"
          /\ LeadingTrivia[j].kind = "SingleLineComment"
    /\ fmtInput.token.prev_token # None

\* Scenario B: the leading trivia of ScenarioBTrivia, nothing seeded from the
\* previous token.
InScenarioB ==
    /\ fmtInput.token.leading = ScenarioBTrivia
    /\ fmtInput.token.prev_token \in {None, Some(<< >>)}

\* The scan has gone past the i-th leading piece.
ScannedPast(i) == fmtLocals.pc # "begin" /\ SkippedPieces # {} /\ fmtLocals.next > i

\* The comment pieces before the first skipped piece.
CommentsBeforeSkipped ==
    { i \in 1..Len(LeadingTrivia) :
        /\ i < FirstSkipped
        /\ LeadingTrivia[i].kind \in {"SingleLineComment", "MultiLineComment"} }

\* Newline pieces between the last comment before the first skipped piece
\* and that skipped piece.
LinesSinceLastComment ==
    Cardinality({ i \in 1..Len(LeadingTrivia) :
                    /\ i < FirstSkipped
                    /\ \A c \in CommentsBeforeSkipped : c < i
                    /\ LeadingTrivia[i].kind = "Newline" })

\* C11 (as claimed): in scenario B the comment "// a" is buffered with
\* lines_before = 2 and the separator written before the skipped span is an
\* empty line.
C11_ScenarioBBlankLine ==
    InScenarioB =>
        /\ (fmtLocals.pc = "scan" /\ fmtLocals.next = 4) =>
              /\ Len(fmtLocals.dangling_comments) = 1
              /\ fmtLocals.dangling_comments[1].lines_before = 2
              /\ fmtLocals.dangling_comments[1].piece.text = "// a"
        /\ ScannedPast(4) => (Len(fmtOut) >= 1 /\ fmtOut[1] = empty_line)

\* C11 (amended): when comments are buffered before the first skipped piece,
\* exactly one separator is written before the skipped span, never none,
\* chosen by the newlines counted since the last buffered comment: 0 -> space,
\* 1 -> hard line break, >= 2 -> empty line. In scenario B "// a" is buffered
\* with lines_before = 2 and the separator is a space.
C11_SeparatorAfterBufferedComments ==
    /\ (SkippedPieces # {} /\ CommentsBeforeSkipped # {} /\ ScannedPast(FirstSkipped)) =>
          /\ Len(fmtOut) >= 1
          /\ fmtOut[1].el =
                IF LinesSinceLastComment = 0 THEN "space"
                ELSE IF LinesSinceLastComment = 1 THEN "hard_line_break"
                ELSE "empty_line"
          /\ IF fmtLocals.pc = "scan" THEN Len(fmtOut) = 1
             ELSE fmtOut[2].el = "verbatim"
    /\ InScenarioB =>
          /\ (fmtLocals.pc = "scan" /\ fmtLocals.next = 4) =>
                /\ Len(fmtLocals.dangling_comments) = 1
                /\ fmtLocals.dangling_comments[1].lines_before = 2
                /\ fmtLocals.dangling_comments[1].piece.text = "// a"
          /\ ScannedPast(4) => fmtOut[1] = space

\* Scenario B was rendered to its end.
C11_Witness ==
    /\ InScenarioB
    /\ SkippedDone
    /\ fmtOut[1] = space
    /\ fmtOut[2].el = "verbatim" /\ fmtOut[2].text = "garbage"

\* ------------------------------------------------------------------------
\* Claims about the suppression edit (checked under SpecSignal)
\* ------------------------------------------------------------------------
\* action() returned a list that ends with the suppression action.
SuppressionProduced ==
    /\ ActionReturnedList
    /\ actionLocals.suppression_node # None
    /\ first_token(signal.tree, actionLocals.suppression_node.some) # None

VerbatimAt == CHOOSE j \in 1..Len(fmtOut) : fmtOut[j].el = "verbatim"

\* The elements written after the verbatim element.
AfterVerbatim == SubSeq(fmtOut, VerbatimAt + 1, Len(fmtOut))

IsCommentElement(e) == e.el = "comment"

\* C13: after the verbatim element comes the separator decided by the
\* counters the scan left. No buffered comment: nothing (lines = 0, spaces =
\* 0), a space (lines = 0, spaces > 0), a hard line break (lines > 0).
\* Buffered comments: a separator by the first comment's lines_before (0 ->
\* space, 1 -> hard line break, >= 2 -> empty line), the comments as
\* non-indented dangling comments, then a space (lines = 0) or a hard line
\* break. Scenario B: space, the dangling comment "// b" with lines_before 0,
\* the hard line break that ends a line comment, space.
C13_SeparatorAfterVerbatim ==
    (SkippedDone /\ SkippedPieces # {}) =>
        LET tail == AfterVerbatim
            buffered == fmtLocals.dangling_comments
            middle == SubSeq(tail, 2, Len(tail) - 1)
        IN  /\ IF buffered = << >>
               THEN tail = IF fmtLocals.lines > 0 THEN << [el |-> "hard_line_break"] >>
                           ELSE IF fmtLocals.spaces > 0 THEN << [el |-> "space"] >>
                           ELSE << >>
               ELSE /\ Len(tail) >= 3
                    /\ tail[1].el =
                          IF buffered[1].lines_before = 0 THEN "space"
                          ELSE IF buffered[1].lines_before = 1 THEN "hard_line_break"
                          ELSE "empty_line"
                    /\ tail[Len(tail)].el =
                          IF fmtLocals.lines = 0 THEN "space" ELSE "hard_line_break"
                    /\ \A j \in 1..Len(middle) :
                          middle[j].el \in {"comment", "hard_line_break"}
                    /\ SelectSeq(middle, IsCommentElement) =
                          [j \in 1..Len(buffered) |->
                              [el |-> "comment", comment |-> buffered[j]]]
            /\ InScenarioB =>
                  /\ Len(tail) = 4
                  /\ tail[1] = [el |-> "space"]
                  /\ tail[2].el = "comment"
                  /\ tail[2].comment.piece.text = "// b"
                  /\ tail[2].comment.lines_before = 0
                  /\ tail[3] = [el |-> "hard_line_break"]
                  /\ tail[4] = [el |-> "space"]

\* A comment one line below the skipped text, then the token on the same line
\* as the comment: hard line break, comment, and a final separator.
C13_Witness ==
    /\ SkippedDone /\ SkippedPieces # {}
    /\ Len(fmtLocals.dangling_comments) = 1
    /\ fmtLocals.dangling_comments[1].lines_before = 1
    /\ fmtLocals.dangling_comments[1].kind = "InlineBlock"
    /\ fmtLocals.lines = 0
    /\ AfterVerbatim[1] = hard_line_break
    /\ AfterVerbatim[Len(AfterVerbatim)] = space

\* ------------------------------------------------------------------------
\* Claims about the dangling comments (checked under SpecDangling)
\* ------------------------------------------------------------------------
DanglingDone ==
    /\ fmtInput # Idle /\ fmtInput.builder = "FormatDanglingComments"
    /\ fmtLocals.pc = "done"

\* C14: no comment, nothing is written. Otherwise the comments are written
\* in order with exactly one hard line break between two consecutive ones;
\* indented, the run follows a hard line break inside one block indent and
\* nothing comes after it; not indented, one more hard line break follows
\* the run exactly when the last comment is a line comment.
C14_DanglingRendering ==
    DanglingDone =>
        LET comments == fmtInput.comments
            n == Len(comments)
            lastIsLine == comments[n].kind = "Line"
        IN  IF n = 0 THEN fmtOut = << >>
            ELSE IF fmtInput.indent
            THEN /\ Len(fmtOut) = 1
                 /\ fmtOut[1].el = "block_indent"
                 /\ LET content == fmtOut[1].content
                    IN  /\ Len(content) = 2 * n
                        /\ content[1] = [el |-> "hard_line_break"]
                        /\ \A i \in 1..n :
                              content[2 * i] = [el |-> "comment", comment |-> comments[i]]
                        /\ \A i \in 1..(n - 1) :
                              content[2 * i + 1] = [el |-> "hard_line_break"]
            ELSE /\ Len(fmtOut) = 2 * n - 1 + (IF lastIsLine THEN 1 ELSE 0)
                 /\ \A i \in 1..n :
                       fmtOut[2 * i - 1] = [el |-> "comment", comment |-> comments[i]]
                 /\ \A i \in 1..(n - 1) :
                       fmtOut[2 * i] = [el |-> "hard_line_break"]
                 /\ lastIsLine => fmtOut[2 * n] = [el |-> "hard_line_break"]

\* Two comments, not indented, the first a line comment and the last a block
\* comment: comment, hard line break, comment, and no break after the run.
C14_Witness ==
    /\ DanglingDone
    /\ ~fmtInput.indent
    /\ Len(fmtInput.comments) = 2
    /\ fmtInput.comments[1].kind = "Line"
    /\ fmtInput.comments[2].kind = "Block"
    /\ Len(fmtOut) = 3

\* ------------------------------------------------------------------------
\* Claims about the comments the skipped-trivia renderer scans
\* (checked under SpecSkipped)
\* ------------------------------------------------------------------------
\* The comment pieces of the token's leading trivia.
CommentPieces ==
    { i \in 1..Len(LeadingTrivia) :
        LeadingTrivia[i].kind \in {"SingleLineComment", "MultiLineComment"} }

\* The written elements that carry the i-th leading piece.
CarryingPiece(i) == Carrying(PieceStart(i), PieceEnd(i))

\* The written comment elements.
CommentElements == { j \in 1..Len(fmtOut) : fmtOut[j].el = "comment" }

\* C15 (as claimed): for leading trivia with a skipped piece, every comment
\* piece is written exactly once, inside the verbatim text when it lies
\* between the first and the last skipped piece and as a dangling comment
\* otherwise; no buffered comment is dropped.
C15_EveryCommentEmittedOnce ==
    (SkippedDone /\ SkippedPieces # {}) =>
        \A i \in CommentPieces :
            /\ Cardinality(CarryingPiece(i)) = 1
            /\ \A j \in CarryingPiece(i) :
                  fmtOut[j].el = IF FirstSkipped < i /\ i < LastSkipped
                                 THEN "verbatim" ELSE "comment"

\* C15 (amended): for leading trivia with a skipped piece, a comment after
\* the first skipped piece is written exactly once: inside the verbatim
\* text when it lies before the last skipped piece, as a dangling comment
\* after the verbatim element otherwise, the dangling comments in source
\* order and never also inside the verbatim text. A comment before the
\* first skipped piece is buffered and cleared: this renderer does not write
\* it.
C15_CommentsAfterFirstSkippedEmittedOnce ==
    (SkippedDone /\ SkippedPieces # {}) =>
        /\ \A i \in CommentPieces :
              IF i < FirstSkipped THEN CarryingPiece(i) = {}
              ELSE IF i < LastSkipped THEN CarryingPiece(i) = {VerbatimAt}
              ELSE /\ Cardinality(CarryingPiece(i)) = 1
                   /\ \A j \in CarryingPiece(i) :
                         /\ j > VerbatimAt
                         /\ fmtOut[j].el = "comment"
                         /\ fmtOut[j].comment.piece =
                               [text |-> LeadingTrivia[i].text,
                                range |-> << PieceStart(i), PieceEnd(i) >>]
        /\ \A i1, i2 \in CommentPieces :
              (LastSkipped < i1 /\ i1 < i2) =>
                  \A j1 \in CarryingPiece(i1), j2 \in CarryingPiece(i2) : j1 < j2
        /\ Cardinality(CommentElements) =
              Cardinality({ i \in CommentPieces : i > LastSkipped })

\* Scenario B was rendered: "// a", before the skipped text, is in no written
\* element and "// b", after it, is in one comment element.
C15_Witness ==
    /\ SkippedDone /\ InScenarioB
    /\ CarryingPiece(3) = {}
    /\ Cardinality(CarryingPiece(6)) = 1
    /\ \A j \in CarryingPiece(6) : fmtOut[j].el = "comment"

====
